---- MODULE Spec2Model ----
(***************************************************************************)
(* Model of src/workers/download_worker.py: the plugin-root locator        *)
(* find_plugin_root and the install pipeline DownloadWorker.run, over an   *)
(* explicit filesystem (a set of directories and a map of files).          *)
(*                                                                         *)
(* A name is a sequence of string tokens (so that endswith(".koplugin")    *)
(* and the "+=" of line 98 are computed, not assumed); a path is a         *)
(* sequence of names.                                                      *)
(***************************************************************************)
EXTENDS Integers, Sequences, FiniteSets, TLC

(* ------------------------------ bounds --------------------------------- *)

\* number of names tempfile.mkdtemp chooses from
MaxTmpNames == 2

\* number of faults (I/O errors, network errors, a malformed item_data) in one
\* behaviour
MaxFaults == 1

\* longest patch list the Archive Source returns
MaxPatches == 2

\* the DownloadWorker runs of one behaviour: a first installation and the
\* one that follows it
Runs == {1, 2}

(* ------------------------------- names --------------------------------- *)

\* Python None, for path-valued locals (a real path is never empty)
None == <<>>

Koplugin == <<".koplugin">>
MainLua == <<"main.lua">>
MetaLua == <<"_meta.lua">>
OtherLua == <<"other.lua">>

\* str.endswith
EndsWith(name, suffix) ==
    /\ Len(name) >= Len(suffix)
    /\ SubSeq(name, Len(name) - Len(suffix) + 1, Len(name)) = suffix

\* mutant: the directory name is used as it is
PluginNameAsIs(plugin_dir) == plugin_dir[Len(plugin_dir)]

\* lines 96-98: plugin_name = plugin_dir.name; append ".koplugin" if missing
PluginName(plugin_dir) ==
    LET plugin_name == plugin_dir[Len(plugin_dir)]
    IN  IF ~EndsWith(plugin_name, Koplugin)
        THEN plugin_name \o Koplugin
        ELSE plugin_name

(* ----------------------------- filesystem ------------------------------ *)

\* mutant: the workspace is created inside the plugins directory
TmpRootInPlugins == << <<"koreader">>, <<"plugins">> >>

\* the directory tempfile.mkdtemp creates the workspace in
TmpRoot == << <<"tmp">> >>

\* self.install_path
install_path == << <<"koreader">> >>
PluginsDir == install_path \o << <<"plugins">> >>
PatchDir == install_path \o << <<"patches">> >>

\* tempfile.mkdtemp(prefix="koreader_store_"): the candidate unique names
TmpNames == { <<"koreader_store_", ToString(n)>> : n \in 1..MaxTmpNames }

\* q is p or lies below p
Under(p, q) == Len(q) >= Len(p) /\ SubSeq(q, 1, Len(p)) = p

\* the proper ancestors of p that lie at or below base
AncestorsFrom(base, p) ==
    { SubSeq(p, 1, k) : k \in Len(base)..(Len(p) - 1) }

\* the members of each archive the Archive Source can deliver: relative path
\* -> content.  "repo1" and "repo2" are repository archives (plugin in a
\* subdirectory, with and without the .koplugin suffix), "release" has the
\* markers at the archive root, "partial" has one marker only.
Members(archive) ==
    CASE archive = "repo1" ->
           ( << <<"y-main">>, <<"foo", ".koplugin">>, MainLua >>  :> "main-1" ) @@
           ( << <<"y-main">>, <<"foo", ".koplugin">>, MetaLua >>  :> "meta-1" ) @@
           ( << <<"y-main">>, <<"foo", ".koplugin">>, OtherLua >> :> "other-1" )
      [] archive = "repo2" ->
           ( << <<"y-main">>, <<"foo">>, MainLua >> :> "main-2" ) @@
           ( << <<"y-main">>, <<"foo">>, MetaLua >> :> "meta-2" )
      [] archive = "release" ->
           ( << MainLua >> :> "main-1" ) @@
           ( << MetaLua >> :> "meta-1" )
      [] archive = "partial" ->
           ( << <<"y-main">>, <<"foo", ".koplugin">>, MainLua >> :> "main-1" )
      [] OTHER -> << >>

\* archives that zipfile can read; any other bytes raise BadZipFile
ValidArchives == {"repo1", "repo2", "release", "partial"}

\* what api.download_repository_zip can return: None, b"", or bytes
ZipContents == {"None", ""} \cup ValidArchives \cup {"corrupt"}

\* what api.get_patch_files can return: None, or a list of descriptors
\* {"name", "download_url"}
PatchNames == {"a.lua", "b.lua"}
PatchUrls == {"url-1", "url-2"}
Descriptors == [name : PatchNames, download_url : PatchUrls]
PatchLists ==
    { [some |-> FALSE, items |-> << >>] } \cup
    { [some |-> TRUE, items |-> l] :
        l \in UNION { [1..n -> Descriptors] : n \in 0..MaxPatches } }

\* response.text of requests.get(url): what the server holds at url
TextAt(url) == IF url = "url-1" THEN "text-1" ELSE "text-2"

\* mutant: `if zip_content is None` in place of `if not zip_content`
ZipNotNone(z) == z # "None"

\* Python truthiness of the two collaborator results (lines 69 and 117)
ZipTruthy(z) == z \notin {"None", ""}

PatchesTruthy(p) == p.some /\ Len(p.items) > 0

\* Path.exists()
Exists(D, F, p) == p \in D \/ p \in DOMAIN F

FilesUnder(F, p) == { q \in DOMAIN F : Under(p, q) }
DirsUnder(D, p) == { d \in D : Under(p, d) }

\* the path q, which lies under src, moved under dst
Rebase(src, dst, q) == dst \o SubSeq(q, Len(src) + 1, Len(q))

\* mutant: the removal empties the directory p and leaves p itself
RmTreeDirsKeepsRoot(D, p, keep) ==
    { d \in D : ~(Len(d) >= Len(p) /\ SubSeq(d, 1, Len(p)) = p) } \cup
    UNION { { SubSeq(q, 1, k) : k \in Len(p)..(Len(q) - 1) } : q \in keep } \cup
    ({p} \cap D)

\* shutil.rmtree(p) that leaves the files of keep behind, with the
\* directories that hold them (keep = {} when it succeeds)
RmTreeDirs(D, p, keep) ==
    { d \in D : ~Under(p, d) } \cup
    UNION { AncestorsFrom(p, q) : q \in keep } \cup
    (IF keep = {} THEN {} ELSE {p})

RmTreeFiles(F, p, keep) ==
    [ q \in { q \in DOMAIN F : ~Under(p, q) \/ q \in keep } |-> F[q] ]

\* shutil.copytree(src, dst) that copies the files of done (all the files
\* under src when it succeeds): os.makedirs(dst), then each entry
CopyTreeDirs(D, src, dst, done, complete) ==
    D \cup { SubSeq(dst, 1, k) : k \in 1..Len(dst) }
      \cup { Rebase(src, dst, a) : a \in UNION { AncestorsFrom(src, q) : q \in done } }
      \cup (IF complete THEN { Rebase(src, dst, d) : d \in DirsUnder(D, src) } ELSE {})
CopyTreeFiles(F, src, dst, done) ==
    LET new == { Rebase(src, dst, q) : q \in done }
    IN  [ t \in new \cup DOMAIN F |->
            IF t \in new
            THEN F[CHOOSE q \in done : Rebase(src, dst, q) = t]
            ELSE F[t] ]

\* ZipFile(zip_path).extractall(base) that extracts the members of done
ExtractDirs(D, base, done) ==
    D \cup UNION { AncestorsFrom(base, base \o m) : m \in done }
ExtractFiles(F, base, archive, done) ==
    LET new == { base \o m : m \in done }
    IN  [ t \in new \cup DOMAIN F |->
            IF t \in new
            THEN Members(archive)[SubSeq(t, Len(base) + 1, Len(t))]
            ELSE F[t] ]

\* open(p, "w").write(text)
WriteFile(F, p, text) == [ t \in DOMAIN F \cup {p} |-> IF t = p THEN text ELSE F[t] ]

(* ------------------------- find_plugin_root ---------------------------- *)

\* line 32: both markers exist (as any kind of entry) directly in d
MarkersExist(D, F, d) ==
    Exists(D, F, d \o <<MainLua>>) /\ Exists(D, F, d \o <<MetaLua>>)

\* line 38: both markers are among the files os.walk lists for d
MarkersInFiles(F, d) ==
    (d \o <<MainLua>>) \in DOMAIN F /\ (d \o <<MetaLua>>) \in DOMAIN F

\* lines 37-41: the directories the top-down walk can meet first with both
\* markers.  The order of sibling directories is the order of os.scandir,
\* which the code does not fix; a directory is always met before the
\* directories below it.
WalkFirst(D, F, base) ==
    { d \in DirsUnder(D, base) :
        /\ MarkersInFiles(F, d)
        /\ \A a \in AncestorsFrom(base, d) : ~MarkersInFiles(F, a) }

\* the values find_plugin_root(base) can return (None when nothing is found)
find_plugin_root(D, F, base) ==
    IF MarkersExist(D, F, base)
    THEN {base}
    ELSE IF WalkFirst(D, F, base) = {}
         THEN {None}
         ELSE WalkFirst(D, F, base)

(* ------------------------------- state --------------------------------- *)

VARIABLES
    dirs,         \* the directories of the filesystem (a set of paths)
    files,        \* the files of the filesystem: path -> content
    faults,       \* faults raised so far
    pc,           \* each run's position in run()
    item_type,    \* self.item_type
    is_update,    \* self.is_update
    item_data,    \* self.item_data: its "name"
    zip_content,  \* local zip_content
    temp_dir,     \* local temp_dir (None while unbound)
    plugin_dir,   \* local plugin_dir (None while unbound or not found)
    work,         \* the entries the running rmtree or copytree still has to do
    patches,      \* local patches
    idx,          \* the position of the loop of line 122 in patches
    response,     \* local response (its text)
    events,       \* the signals emitted so far, in order
    err,          \* the exception caught at line 132 ("" while none)
    log           \* the records written to logger, in order

vars == << dirs, files, faults, pc, item_type, is_update, item_data, zip_content,
           temp_dir, plugin_dir, work, patches, idx, response, events, err, log >>

\* the locals and fields of the runs, in groups, for UNCHANGED
fs == << dirs, files >>
request == << item_type, is_update, item_data >>
pluginLocals == << zip_content, temp_dir, plugin_dir, work >>
patchLocals == << patches, idx, response >>

\* the (item_type, is_update) pairs a worker is constructed with: the two
\* item types the code handles and another string (the constructor accepts
\* any value); is_update is read by plugin runs only (line 107)
Requests ==
    { [item_type |-> "plugin", is_update |-> FALSE],
      [item_type |-> "plugin", is_update |-> TRUE],
      [item_type |-> "patch", is_update |-> FALSE],
      [item_type |-> "theme", is_update |-> FALSE] }

\* self.item_data["name"] of a well-formed item_data
Repos == {"y"}

NoPatches == [some |-> FALSE, items |-> << >>]

\* the signals: self.progress.emit(m) and self.finished.emit(ok, m)
Progress(m) == <<"progress", m>>
Finished(ok, m) == <<"finished", ok, m>>

\* mutant: progress is never reported, only the outcome
EmitOutcomeOnly(w, signal) ==
    events' = [events EXCEPT ![w] = IF signal[1] = "progress" THEN @ ELSE Append(@, signal)]

Emit(w, signal) == events' = [events EXCEPT ![w] = Append(@, signal)]

\* logger.info, logger.warning, logger.error: the level, the text and the
\* path or detail the record names
Log(w, level, text, what) == log' = [log EXCEPT ![w] = Append(@, <<level, text, what>>)]

\* the environment may still raise a fault
CanFault == faults < MaxFaults

\* mutant: the exception is not caught by the handler of line 132
RaiseUncaught(w, e) ==
    /\ pc' = [pc EXCEPT ![w] = "finally"]
    /\ err' = [err EXCEPT ![w] = e]

\* an exception leaves the try block: control goes to line 132 with e
Raise(w, e) ==
    /\ pc' = [pc EXCEPT ![w] = "except"]
    /\ err' = [err EXCEPT ![w] = e]

Goto(w, label) == pc' = [pc EXCEPT ![w] = label]

\* the filesystem the behaviours start from: the temporary directory and an
\* install root with an empty plugins directory
InitDirs == { TmpRoot, install_path, PluginsDir }
InitFiles == << >>

Init ==
    /\ dirs = InitDirs
    /\ files = InitFiles
    /\ faults = 0
    /\ pc = [w \in Runs |-> "idle"]
    /\ item_type = [w \in Runs |-> "plugin"]
    /\ is_update = [w \in Runs |-> FALSE]
    /\ item_data = [w \in Runs |-> [name |-> "y"]]
    /\ zip_content = [w \in Runs |-> "None"]
    /\ temp_dir = [w \in Runs |-> None]
    /\ plugin_dir = [w \in Runs |-> None]
    /\ work = [w \in Runs |-> {}]
    /\ patches = [w \in Runs |-> NoPatches]
    /\ idx = [w \in Runs |-> 0]
    /\ response = [w \in Runs |-> ""]
    /\ events = [w \in Runs |-> << >>]
    /\ err = [w \in Runs |-> ""]
    /\ log = [w \in Runs |-> << >>]

(* ------------------------------ actions -------------------------------- *)

\* lines 52-58: DownloadWorker(api, item_data, install_path, item_type,
\* is_update), then start().  The runs of this specification are started
\* one after the other.
Start(w) ==
    /\ pc[w] = "idle"
    /\ \A v \in Runs : v < w => pc[v] = "done"
    /\ \E q \in Requests, r \in Repos :
         /\ item_type' = [item_type EXCEPT ![w] = q.item_type]
         /\ is_update' = [is_update EXCEPT ![w] = q.is_update]
         /\ item_data' = [item_data EXCEPT ![w] = [name |-> r]]
    /\ Goto(w, "run")
    /\ UNCHANGED << fs, faults, pluginLocals, patchLocals, events, err, log >>

\* lines 61-66 and 114: read owner and repo (a KeyError when item_data lacks
\* them), branch on item_type
Begin(w) ==
    /\ pc[w] = "run"
    /\ \/ /\ CanFault
          /\ faults' = faults + 1
          /\ Raise(w, "KeyError")
          /\ UNCHANGED events
       \/ /\ UNCHANGED << faults, err >>
          /\ CASE item_type[w] = "plugin" ->
                    /\ Emit(w, Progress("Downloading " \o item_data[w].name \o "..."))
                    /\ Goto(w, "download")
               [] item_type[w] = "patch" ->
                    /\ UNCHANGED events
                    /\ Goto(w, "get_patch_files")
               [] OTHER ->
                    /\ UNCHANGED events
                    /\ Goto(w, "finally")
    /\ UNCHANGED << fs, request, pluginLocals, patchLocals, log >>

\* mutant: the `return` of line 71 is missing
DownloadNoReturn(w) ==
    /\ pc[w] = "download"
    /\ \/ /\ CanFault
          /\ faults' = faults + 1
          /\ Raise(w, "download_repository_zip failed")
          /\ UNCHANGED << zip_content, events >>
       \/ \E z \in ZipContents :
            /\ zip_content' = [zip_content EXCEPT ![w] = z]
            /\ IF ~ZipTruthy(z)
               THEN Emit(w, Finished(FALSE, "Failed to download repository"))
               ELSE UNCHANGED events
            /\ Goto(w, "mkdtemp")
            /\ UNCHANGED << faults, err >>
    /\ UNCHANGED << fs, request, temp_dir, plugin_dir, work, patchLocals, log >>

\* lines 67-71: api.download_repository_zip(owner, repo)
Download(w) ==
    /\ pc[w] = "download"
    /\ \/ /\ CanFault
          /\ faults' = faults + 1
          /\ Raise(w, "download_repository_zip failed")
          /\ UNCHANGED << zip_content, events >>
       \/ \E z \in ZipContents :
            /\ zip_content' = [zip_content EXCEPT ![w] = z]
            /\ IF ~ZipTruthy(z)
               THEN /\ Emit(w, Finished(FALSE, "Failed to download repository"))
                    /\ Goto(w, "finally")
               ELSE /\ UNCHANGED events
                    /\ Goto(w, "mkdtemp")
            /\ UNCHANGED << faults, err >>
    /\ UNCHANGED << fs, request, temp_dir, plugin_dir, work, patchLocals, log >>

\* mutant: the workspace is made with a name that may be in use
MkdtempShared(w) ==
    /\ pc[w] = "mkdtemp"
    /\ \E n \in TmpNames :
         /\ dirs' = dirs \cup { TmpRoot \o <<n>> }
         /\ temp_dir' = [temp_dir EXCEPT ![w] = TmpRoot \o <<n>>]
         /\ Goto(w, "write_zip")
         /\ UNCHANGED << faults, err >>
    /\ UNCHANGED << files, request, zip_content, plugin_dir, work, patchLocals, events, log >>

\* lines 74-75: temp_dir = Path(tempfile.mkdtemp(prefix="koreader_store_"))
Mkdtemp(w) ==
    /\ pc[w] = "mkdtemp"
    /\ \/ /\ CanFault
          /\ faults' = faults + 1
          /\ Raise(w, "mkdtemp failed")
          /\ UNCHANGED << dirs, temp_dir >>
       \/ \E n \in TmpNames :
            /\ ~Exists(dirs, files, TmpRoot \o <<n>>)
            /\ dirs' = dirs \cup { TmpRoot \o <<n>> }
            /\ temp_dir' = [temp_dir EXCEPT ![w] = TmpRoot \o <<n>>]
            /\ Goto(w, "write_zip")
            /\ UNCHANGED << faults, err >>
    /\ UNCHANGED << files, request, zip_content, plugin_dir, work, patchLocals, events, log >>

\* zip_path = temp_dir / f"{repo}.zip"
ZipPath(w) == temp_dir[w] \o << <<item_data[w].name, ".zip">> >>

\* lines 77-80: write the archive into the workspace
WriteZip(w) ==
    /\ pc[w] = "write_zip"
    /\ \/ /\ CanFault
          /\ faults' = faults + 1
          /\ Raise(w, "write failed")
          /\ \/ UNCHANGED files
             \/ files' = WriteFile(files, ZipPath(w), "")
          /\ UNCHANGED events
       \/ /\ files' = WriteFile(files, ZipPath(w), zip_content[w])
          /\ Emit(w, Progress("Extracting..."))
          /\ Goto(w, "extract")
          /\ UNCHANGED << faults, err >>
    /\ UNCHANGED << dirs, request, pluginLocals, patchLocals, log >>

\* lines 81-84: ZipFile(zip_path).extractall(temp_dir)
Extract(w) ==
    /\ pc[w] = "extract"
    /\ LET archive == files[ZipPath(w)]
           all == DOMAIN Members(archive)
       IN  \/ /\ archive \notin ValidArchives
              /\ Raise(w, "File is not a zip file")
              /\ UNCHANGED << fs, faults, events >>
           \/ /\ archive \in ValidArchives
              /\ CanFault
              /\ faults' = faults + 1
              /\ Raise(w, "extractall failed")
              /\ \E done \in SUBSET all :
                   /\ done # all
                   /\ dirs' = ExtractDirs(dirs, temp_dir[w], done)
                   /\ files' = ExtractFiles(files, temp_dir[w], archive, done)
              /\ UNCHANGED events
           \/ /\ archive \in ValidArchives
              /\ dirs' = ExtractDirs(dirs, temp_dir[w], all)
              /\ files' = ExtractFiles(files, temp_dir[w], archive, all)
              /\ Emit(w, Progress("Analyzing plugin structure..."))
              /\ Goto(w, "locate")
              /\ UNCHANGED << faults, err >>
    /\ UNCHANGED << request, pluginLocals, patchLocals, log >>

\* target = Path(self.install_path) / "plugins" / plugin_name
Target(w) == PluginsDir \o << PluginName(plugin_dir[w]) >>

\* lines 33, 40 and 43: the record find_plugin_root logs with its result
LogFound(w, base, found) ==
    IF MarkersExist(dirs, files, base)
    THEN Log(w, "info", "Found plugin in root directory", base)
    ELSE IF found # None
         THEN Log(w, "info", "Found plugin in subdirectory", found)
         ELSE Log(w, "warning", "No valid plugin structure found in", base)

\* lines 87-100: plugin_dir = find_plugin_root(temp_dir), and its check
Locate(w) ==
    /\ pc[w] = "locate"
    /\ \/ /\ CanFault
          /\ faults' = faults + 1
          /\ Raise(w, "find_plugin_root failed")
          /\ UNCHANGED << plugin_dir, events, log >>
       \/ \E found \in find_plugin_root(dirs, files, temp_dir[w]) :
            /\ plugin_dir' = [plugin_dir EXCEPT ![w] = found]
            /\ LogFound(w, temp_dir[w], found)
            /\ IF found = None
               THEN /\ Emit(w, Finished(FALSE,
                          "No valid plugin structure found (main.lua/_meta.lua missing)"))
                    /\ Goto(w, "finally")
               ELSE /\ Emit(w, Progress("Installing..."))
                    /\ Goto(w, "target_exists")
            /\ UNCHANGED << faults, err >>
    /\ UNCHANGED << fs, request, zip_content, temp_dir, work, patchLocals >>

\* lines 102-103: if target.exists()
TargetExists(w) ==
    /\ pc[w] = "target_exists"
    /\ IF Exists(dirs, files, Target(w))
       THEN Goto(w, "rmtree")
       ELSE Goto(w, "copytree")
    /\ UNCHANGED << fs, faults, request, pluginLocals, patchLocals, events, err, log >>

\* line 104: shutil.rmtree(target)
RmTree(w) ==
    /\ pc[w] = "rmtree"
    /\ \/ /\ CanFault
          /\ faults' = faults + 1
          /\ Raise(w, "rmtree failed")
          /\ \E keep \in SUBSET FilesUnder(files, Target(w)) :
               /\ dirs' = RmTreeDirs(dirs, Target(w), keep) \cup {Target(w)}
               /\ files' = RmTreeFiles(files, Target(w), keep)
       \/ /\ dirs' = RmTreeDirs(dirs, Target(w), {})
          /\ files' = RmTreeFiles(files, Target(w), {})
          /\ Goto(w, "copytree")
          /\ UNCHANGED << faults, err >>
    /\ UNCHANGED << request, pluginLocals, patchLocals, events, log >>

\* mutant: the two messages are swapped
SuccessMsgSwapped(w) ==
    IF is_update[w]
    THEN item_data[w].name \o " installed successfully!"
    ELSE item_data[w].name \o " updated successfully!"

\* lines 107-110
SuccessMsg(w) ==
    IF is_update[w]
    THEN item_data[w].name \o " updated successfully!"
    ELSE item_data[w].name \o " installed successfully!"

\* lines 105-112: shutil.copytree(plugin_dir, target), then the success signal
CopyTree(w) ==
    /\ pc[w] = "copytree"
    /\ LET all == FilesUnder(files, plugin_dir[w])
       IN  \/ /\ Exists(dirs, files, Target(w))
              /\ Raise(w, "File exists")
              /\ UNCHANGED << fs, faults, events >>
           \/ /\ ~Exists(dirs, files, Target(w))
              /\ CanFault
              /\ faults' = faults + 1
              /\ Raise(w, "copytree failed")
              /\ \/ UNCHANGED fs
                 \/ \E done \in SUBSET all :
                      /\ done # all
                      /\ dirs' = CopyTreeDirs(dirs, plugin_dir[w], Target(w), done, FALSE)
                      /\ files' = CopyTreeFiles(files, plugin_dir[w], Target(w), done)
              /\ UNCHANGED events
           \/ /\ ~Exists(dirs, files, Target(w))
              /\ dirs' = CopyTreeDirs(dirs, plugin_dir[w], Target(w), all, TRUE)
              /\ files' = CopyTreeFiles(files, plugin_dir[w], Target(w), all)
              /\ Emit(w, Finished(TRUE, SuccessMsg(w)))
              /\ Goto(w, "finally")
              /\ UNCHANGED << faults, err >>
    /\ UNCHANGED << request, pluginLocals, patchLocals, log >>

\* lines 116-118 and 129-130: patches = self.api.get_patch_files(owner, repo)
GetPatchFiles(w) ==
    /\ pc[w] = "get_patch_files"
    /\ \/ /\ CanFault
          /\ faults' = faults + 1
          /\ Raise(w, "get_patch_files failed")
          /\ UNCHANGED << patches, events >>
       \/ \E l \in PatchLists :
            /\ patches' = [patches EXCEPT ![w] = l]
            /\ IF PatchesTruthy(l)
               THEN /\ Emit(w, Progress("Downloading patches..."))
                    /\ Goto(w, "mkdir")
               ELSE /\ Emit(w, Finished(FALSE, "No patches found"))
                    /\ Goto(w, "finally")
            /\ UNCHANGED << faults, err >>
    /\ UNCHANGED << fs, request, pluginLocals, idx, response, log >>

\* lines 119-122: patch_dir.mkdir(exist_ok=True), and the loop is entered
Mkdir(w) ==
    /\ pc[w] = "mkdir"
    /\ \/ /\ CanFault
          /\ faults' = faults + 1
          /\ Raise(w, "mkdir failed")
          /\ UNCHANGED << dirs, idx >>
       \/ /\ dirs' = dirs \cup {PatchDir}
          /\ idx' = [idx EXCEPT ![w] = 1]
          /\ Goto(w, "get")
          /\ UNCHANGED << faults, err >>
    /\ UNCHANGED << files, request, pluginLocals, patches, response, events, log >>

\* line 123: response = requests.get(patch["download_url"], timeout=10)
Get(w) ==
    /\ pc[w] = "get"
    /\ \/ /\ CanFault
          /\ faults' = faults + 1
          /\ Raise(w, "get failed")
          /\ UNCHANGED response
       \/ /\ response' = [response EXCEPT ![w] = TextAt(patches[w].items[idx[w]].download_url)]
          /\ Goto(w, "write")
          /\ UNCHANGED << faults, err >>
    /\ UNCHANGED << fs, request, pluginLocals, patches, idx, events, log >>

\* mutant: the file is named after the package, not after the patch
PatchFileOfRepo(w) == PatchDir \o << <<item_data[w].name>> >>

\* patch_file = patch_dir / patch["name"]
PatchFile(w) == PatchDir \o << <<patches[w].items[idx[w]].name>> >>

\* line 128
PatchMsg(w) == ToString(Len(patches[w].items)) \o " patch(es) installed!"

\* lines 124-128: write response.text, then the next patch or the success signal
WritePatch(w) ==
    /\ pc[w] = "write"
    /\ \/ /\ CanFault
          /\ faults' = faults + 1
          /\ Raise(w, "write failed")
          /\ \/ UNCHANGED files
             \/ files' = WriteFile(files, PatchFile(w), "")
          /\ UNCHANGED << idx, events >>
       \/ /\ files' = WriteFile(files, PatchFile(w), response[w])
          /\ IF idx[w] < Len(patches[w].items)
             THEN /\ idx' = [idx EXCEPT ![w] = @ + 1]
                  /\ Goto(w, "get")
                  /\ UNCHANGED events
             ELSE /\ Emit(w, Finished(TRUE, PatchMsg(w)))
                  /\ Goto(w, "finally")
                  /\ UNCHANGED idx
          /\ UNCHANGED << faults, err >>
    /\ UNCHANGED << dirs, request, pluginLocals, patches, response, log >>

\* mutant: the handler removes the patches written so far
ExceptRollsBack(w) ==
    /\ pc[w] = "except"
    /\ Log(w, "error", "Error during installation: " \o err[w], None)
    /\ Emit(w, Finished(FALSE, "Error: " \o err[w]))
    /\ Goto(w, "finally")
    /\ files' = RmTreeFiles(files, PatchDir, {})
    /\ UNCHANGED << dirs, faults, request, pluginLocals, patchLocals, err >>

\* lines 132-134: except Exception as e
Except(w) ==
    /\ pc[w] = "except"
    /\ Log(w, "error", "Error during installation: " \o err[w], None)
    /\ Emit(w, Finished(FALSE, "Error: " \o err[w]))
    /\ Goto(w, "finally")
    /\ UNCHANGED << fs, faults, request, pluginLocals, patchLocals, err >>

\* mutant: run() returns without the finally block
FinallySkipsCleanup(w) ==
    /\ pc[w] = "finally"
    /\ Goto(w, "done")
    /\ zip_content' = [zip_content EXCEPT ![w] = "None"]
    /\ temp_dir' = [temp_dir EXCEPT ![w] = None]
    /\ plugin_dir' = [plugin_dir EXCEPT ![w] = None]
    /\ work' = [work EXCEPT ![w] = {}]
    /\ patches' = [patches EXCEPT ![w] = NoPatches]
    /\ idx' = [idx EXCEPT ![w] = 0]
    /\ response' = [response EXCEPT ![w] = ""]
    /\ err' = [err EXCEPT ![w] = ""]
    /\ UNCHANGED << fs, faults, request, events, log >>

\* lines 135-142: remove the workspace if temp_dir is bound and exists; a
\* failing removal (it removed nothing, or everything but the directory
\* itself) is logged as a warning.  Then run() returns and its locals are gone.
Finally(w) ==
    /\ pc[w] = "finally"
    /\ IF temp_dir[w] # None /\ Exists(dirs, files, temp_dir[w])
       THEN \/ /\ dirs' = RmTreeDirs(dirs, temp_dir[w], {})
               /\ files' = RmTreeFiles(files, temp_dir[w], {})
               /\ Log(w, "info", "Cleaned up temporary directory", temp_dir[w])
               /\ UNCHANGED faults
            \/ /\ CanFault
               /\ faults' = faults + 1
               /\ \E keep \in { {}, FilesUnder(files, temp_dir[w]) } :
                    /\ dirs' = RmTreeDirs(dirs, temp_dir[w], keep) \cup {temp_dir[w]}
                    /\ files' = RmTreeFiles(files, temp_dir[w], keep)
               /\ Log(w, "warning", "Failed to cleanup temporary directory", temp_dir[w])
       ELSE UNCHANGED << fs, faults, log >>
    /\ Goto(w, "done")
    /\ zip_content' = [zip_content EXCEPT ![w] = "None"]
    /\ temp_dir' = [temp_dir EXCEPT ![w] = None]
    /\ plugin_dir' = [plugin_dir EXCEPT ![w] = None]
    /\ work' = [work EXCEPT ![w] = {}]
    /\ patches' = [patches EXCEPT ![w] = NoPatches]
    /\ idx' = [idx EXCEPT ![w] = 0]
    /\ response' = [response EXCEPT ![w] = ""]
    /\ err' = [err EXCEPT ![w] = ""]
    /\ UNCHANGED << request, events >>

Next ==
    \E w \in Runs :
        \/ Start(w)
        \/ Begin(w)
        \/ Download(w)
        \/ Mkdtemp(w)
        \/ WriteZip(w)
        \/ Extract(w)
        \/ Locate(w)
        \/ TargetExists(w)
        \/ RmTree(w)
        \/ CopyTree(w)
        \/ GetPatchFiles(w)
        \/ Mkdir(w)
        \/ Get(w)
        \/ WritePatch(w)
        \/ Except(w)
        \/ Finally(w)

Spec == Init /\ [][Next]_vars

\* the steps of run(): everything the thread of worker w does once started
Step(w) ==
    \/ Begin(w)
    \/ Download(w)
    \/ Mkdtemp(w)
    \/ WriteZip(w)
    \/ Extract(w)
    \/ Locate(w)
    \/ TargetExists(w)
    \/ RmTree(w)
    \/ CopyTree(w)
    \/ GetPatchFiles(w)
    \/ Mkdir(w)
    \/ Get(w)
    \/ WritePatch(w)
    \/ Except(w)
    \/ Finally(w)

\* QThread.start(): the thread of a started worker is scheduled fairly, and
\* every call it makes returns or raises
SpecFair == Init /\ [][Next]_vars /\ \A w \in Runs : WF_vars(Step(w))

(* ------------------ the locator on arbitrary archives ------------------ *)

\* the workspace the run was given by mkdtemp
Base == TmpRoot \o << <<"koreader_store_", "1">> >>

\* the directories the extraction of an archive can have made below the
\* workspace
TreeDirs ==
    { Base \o << <<"foo">> >>,
      Base \o << <<"foo", ".koplugin">> >>,
      Base \o << <<"foo">>, <<"bar", ".koplugin", ".bak">> >> }

\* a name of an archive member is absent from a directory, or a file of it,
\* or a directory of it (the archive has a member below that name)
Kinds == {"absent", "file", "dir"}

\* the extracted trees: the directories present, and for each of them and
\* for the workspace the kind of entry main.lua and _meta.lua are
Trees ==
    { t \in [ ds : SUBSET TreeDirs,
              main : [TreeDirs \cup {Base} -> Kinds],
              meta : [TreeDirs \cup {Base} -> Kinds] ] :
        /\ \A d \in t.ds : \A a \in AncestorsFrom(Base, d) : a \in t.ds \cup {Base}
        /\ \A d \in TreeDirs \ t.ds : t.main[d] = "absent" /\ t.meta[d] = "absent" }

TreeEntries(t, kind) ==
    { d \o <<MainLua>> : d \in { d \in TreeDirs \cup {Base} : t.main[d] = kind } } \cup
    { d \o <<MetaLua>> : d \in { d \in TreeDirs \cup {Base} : t.meta[d] = kind } }

\* lines 74-82: the workspace after the archive was written and extracted
InitLocator ==
    /\ \E t \in Trees :
         /\ dirs = InitDirs \cup {Base} \cup t.ds \cup TreeEntries(t, "dir")
         /\ files = [ q \in TreeEntries(t, "file") \cup { Base \o << <<"y", ".zip">> >> } |->
                        IF q = Base \o << <<"y", ".zip">> >> THEN "archive" ELSE "lua" ]
    /\ faults = 0
    /\ pc = [w \in Runs |-> IF w = 1 THEN "locate" ELSE "idle"]
    /\ item_type = [w \in Runs |-> "plugin"]
    /\ is_update = [w \in Runs |-> FALSE]
    /\ item_data = [w \in Runs |-> [name |-> "y"]]
    /\ zip_content = [w \in Runs |-> IF w = 1 THEN "archive" ELSE "None"]
    /\ temp_dir = [w \in Runs |-> IF w = 1 THEN Base ELSE None]
    /\ plugin_dir = [w \in Runs |-> None]
    /\ work = [w \in Runs |-> {}]
    /\ patches = [w \in Runs |-> NoPatches]
    /\ idx = [w \in Runs |-> 0]
    /\ response = [w \in Runs |-> ""]
    /\ events = [w \in Runs |->
                   IF w = 1
                   THEN << Progress("Downloading y..."), Progress("Extracting..."),
                           Progress("Analyzing plugin structure...") >>
                   ELSE << >>]
    /\ err = [w \in Runs |-> ""]
    /\ log = [w \in Runs |-> << >>]

NextLocator == Locate(1)

SpecLocator == InitLocator /\ [][NextLocator]_vars

(* --------------------------- observations ------------------------------ *)

\* the terminal outcomes a run has emitted, in order
Outcomes(w) == SelectSeq(events[w], LAMBDA e : e[1] = "finished")

\* the run has emitted a success outcome
Succeeded(w) == \E i \in 1..Len(events[w]) : events[w][i][1] = "finished" /\ events[w][i][2]

\* the run has logged a record with this level and text
Logged(w, level, text) ==
    \E i \in 1..Len(log[w]) : log[w][i][1] = level /\ log[w][i][2] = text

\* the paths the run has logged with this text
LoggedPaths(w, text) ==
    { log[w][i][3] : i \in { j \in 1..Len(log[w]) : log[w][j][2] = text } }

CleanupFailed(w) == Logged(w, "warning", "Failed to cleanup temporary directory")

\* the entries directly in directory p
Children(D, F, p) == { q \in D \cup DOMAIN F : Len(q) = Len(p) + 1 /\ Under(p, q) }

\* what lies below the plugins directory
PluginsTree(D, F) ==
    << DirsUnder(D, PluginsDir), [ q \in FilesUnder(F, PluginsDir) |-> F[q] ] >>

(* --------------------------- concurrent runs ---------------------------- *)

\* Two plugin runs on the same install_path, each on a thread of its own.
\* shutil.rmtree and shutil.copytree are taken entry by entry, so that the
\* steps of one run fall between the steps of the other.  The environment
\* raises no fault here: the failures are those the runs cause each other.
\* The plugin roots of the archives hold files only.

\* the entry of work that records a failed copy (the errors list of copytree)
CopyError == << <<"error">> >>

InitConc ==
    /\ dirs = InitDirs
    /\ files = InitFiles
    /\ faults = MaxFaults
    /\ pc = [w \in Runs |-> "idle"]
    /\ item_type = [w \in Runs |-> "plugin"]
    /\ is_update = [w \in Runs |-> FALSE]
    /\ item_data = [w \in Runs |-> [name |-> "y"]]
    /\ zip_content = [w \in Runs |-> "None"]
    /\ temp_dir = [w \in Runs |-> None]
    /\ plugin_dir = [w \in Runs |-> None]
    /\ work = [w \in Runs |-> {}]
    /\ patches = [w \in Runs |-> NoPatches]
    /\ idx = [w \in Runs |-> 0]
    /\ response = [w \in Runs |-> ""]
    /\ events = [w \in Runs |-> << >>]
    /\ err = [w \in Runs |-> ""]
    /\ log = [w \in Runs |-> << >>]

\* lines 52-58: a plugin worker is constructed and started, whatever the
\* other worker is doing
StartConc(w) ==
    /\ pc[w] = "idle"
    /\ \E u \in BOOLEAN, r \in Repos :
         /\ item_type' = [item_type EXCEPT ![w] = "plugin"]
         /\ is_update' = [is_update EXCEPT ![w] = u]
         /\ item_data' = [item_data EXCEPT ![w] = [name |-> r]]
    /\ Goto(w, "run")
    /\ UNCHANGED << fs, faults, pluginLocals, patchLocals, events, err, log >>

\* line 104, shutil.rmtree(target): the entries of target are listed
\* (FileNotFoundError when target is gone since the check of line 103)
RmTreeList(w) ==
    /\ pc[w] = "rmtree"
    /\ IF Target(w) \in dirs
       THEN /\ work' = [work EXCEPT ![w] = FilesUnder(files, Target(w))]
            /\ Goto(w, "rmtree_entries")
            /\ UNCHANGED err
       ELSE /\ Raise(w, "No such file or directory")
            /\ UNCHANGED work
    /\ UNCHANGED << fs, faults, request, zip_content, temp_dir, plugin_dir,
                    patchLocals, events, log >>

\* line 104, shutil.rmtree(target): os.unlink of a listed entry, and
\* os.rmdir(target) after the last one
RmTreeEntry(w) ==
    /\ pc[w] = "rmtree_entries"
    /\ \/ \E q \in work[w] :
            IF q \in DOMAIN files
            THEN /\ files' = [ t \in DOMAIN files \ {q} |-> files[t] ]
                 /\ work' = [work EXCEPT ![w] = @ \ {q}]
                 /\ UNCHANGED << dirs, pc, err >>
            ELSE /\ Raise(w, "No such file or directory")
                 /\ UNCHANGED << fs, work >>
       \/ /\ work[w] = {}
          /\ IF Target(w) \in dirs /\ Children(dirs, files, Target(w)) = {}
             THEN /\ dirs' = dirs \ {Target(w)}
                  /\ Goto(w, "copytree")
                  /\ UNCHANGED << files, err >>
             ELSE /\ Raise(w, "Directory not empty")
                  /\ UNCHANGED fs
          /\ UNCHANGED work
    /\ UNCHANGED << faults, request, zip_content, temp_dir, plugin_dir,
                    patchLocals, events, log >>

\* line 105, shutil.copytree(plugin_dir, target): the entries of plugin_dir
\* are listed and os.makedirs(target) is called (FileExistsError when target
\* exists)
CopyTreeMake(w) ==
    /\ pc[w] = "copytree"
    /\ IF Exists(dirs, files, Target(w))
       THEN /\ Raise(w, "File exists")
            /\ UNCHANGED << dirs, work >>
       ELSE /\ dirs' = CopyTreeDirs(dirs, plugin_dir[w], Target(w), {}, FALSE)
            /\ work' = [work EXCEPT ![w] = FilesUnder(files, plugin_dir[w])]
            /\ Goto(w, "copytree_entries")
            /\ UNCHANGED err
    /\ UNCHANGED << files, faults, request, zip_content, temp_dir, plugin_dir,
                    patchLocals, events, log >>

\* lines 105-112, shutil.copytree(plugin_dir, target): copy2 of a listed
\* entry (its error is collected and the copy goes on), and after the last
\* one copystat(plugin_dir, target), `raise Error(errors)` when an error was
\* collected, else the success signal
CopyTreeEntry(w) ==
    /\ pc[w] = "copytree_entries"
    /\ \/ \E q \in work[w] \ {CopyError} :
            /\ IF Target(w) \in dirs /\ q \in DOMAIN files
               THEN /\ files' = WriteFile(files, Rebase(plugin_dir[w], Target(w), q), files[q])
                    /\ work' = [work EXCEPT ![w] = @ \ {q}]
               ELSE /\ work' = [work EXCEPT ![w] = (@ \ {q}) \cup {CopyError}]
                    /\ UNCHANGED files
            /\ UNCHANGED << pc, err, events >>
       \/ /\ work[w] \ {CopyError} = {}
          /\ IF CopyError \in work[w] \/ Target(w) \notin dirs
             THEN /\ Raise(w, "copytree errors")
                  /\ UNCHANGED events
             ELSE /\ Emit(w, Finished(TRUE, SuccessMsg(w)))
                  /\ Goto(w, "finally")
                  /\ UNCHANGED err
          /\ UNCHANGED << files, work >>
    /\ UNCHANGED << dirs, faults, request, zip_content, temp_dir, plugin_dir,
                    patchLocals, log >>

NextConc ==
    \E w \in Runs :
        \/ StartConc(w)
        \/ Begin(w)
        \/ Download(w)
        \/ Mkdtemp(w)
        \/ WriteZip(w)
        \/ Extract(w)
        \/ Locate(w)
        \/ TargetExists(w)
        \/ RmTreeList(w)
        \/ RmTreeEntry(w)
        \/ CopyTreeMake(w)
        \/ CopyTreeEntry(w)
        \/ Except(w)
        \/ Finally(w)

SpecConc == InitConc /\ [][NextConc]_vars

(* ------------------------------- claims --------------------------------- *)

\* C1 (as stated): every run that has returned has emitted `finished` exactly
\* once, whatever its item_type and whichever step faulted.
C1_FinishedExactlyOnce ==
    \A w \in Runs : pc[w] = "done" => Len(Outcomes(w)) = 1

\* C2 (as stated): in the state in which a PluginBundle run's outcome is
\* emitted, and in every later state, the run's workspace no longer exists
\* (unless its removal failed).
C2_CleanedWhenEmitted ==
    \A w \in Runs :
        ( /\ item_type[w] = "plugin"
          /\ Outcomes(w) # << >>
          /\ temp_dir[w] # None
          /\ ~CleanupFailed(w) )
        => ~Exists(dirs, files, temp_dir[w])

\* C2 (amended): a PluginBundle run emits its outcome before it cleans up, so
\* it has emitted exactly one outcome when it reaches the cleanup and when it
\* has returned; and every workspace that exists belongs to a run that has
\* not returned yet, or is one whose removal failed.
C2_CleanedWhenReturned ==
    /\ \A w \in Runs :
         (item_type[w] = "plugin" /\ pc[w] \in {"finally", "done"})
         => Len(Outcomes(w)) = 1
    /\ Children(dirs, files, TmpRoot) \subseteq
         { temp_dir[v] : v \in { u \in Runs : pc[u] \notin {"idle", "done"} } }
         \cup UNION { LoggedPaths(v, "Failed to cleanup temporary directory") : v \in Runs }

C2_Witness ==
    \E w \in Runs :
        /\ item_type[w] = "plugin"
        /\ pc[w] = "done"
        /\ Len(Outcomes(w)) = 1
        /\ Logged(w, "info", "Cleaned up temporary directory")
        /\ Children(dirs, files, TmpRoot) = {}

\* the step in which run w returns, and what it does to its workspace
C3_ReturnStep(w) ==
    (pc[w] = "finally" /\ pc'[w] = "done")
    => IF temp_dir[w] = None
       THEN dirs' = dirs /\ files' = files
       ELSE \/ CleanupFailed(w)'
            \/ /\ ~Exists(dirs', files', temp_dir[w])
               /\ FilesUnder(files', temp_dir[w]) = {}
               /\ DirsUnder(dirs', temp_dir[w]) = {}

\* C3: the step in which run() returns leaves no workspace of the run behind
\* unless the removal failed, on every exit path; a run that created no
\* workspace changes nothing in the filesystem in that step.
C3_NoWorkspaceAfterReturn == [][\A w \in Runs : C3_ReturnStep(w)]_vars

C3_Witness ==
    \E w \in Runs :
        /\ pc[w] = "done"
        /\ Logged(w, "warning", "No valid plugin structure found in")
        /\ Logged(w, "info", "Cleaned up temporary directory")
        /\ \A p \in LoggedPaths(w, "Cleaned up temporary directory") :
             ~Exists(dirs, files, p)

\* C4 (as stated): once two PluginBundle runs for the same package, fed
\* archives of the same shape, have both succeeded one after the other, the
\* plugins directory holds exactly one Install Target, and it holds exactly the
\* files of the second run's plugin root.
C4_ReplaceSemantics ==
    ( /\ item_type[1] = "plugin" /\ item_type[2] = "plugin"
      /\ item_data[1].name = item_data[2].name
      /\ Succeeded(1) /\ Succeeded(2)
      /\ pc[2] = "finally"
      /\ Logged(1, "info", "Found plugin in root directory")
           <=> Logged(2, "info", "Found plugin in root directory") )
    => /\ Children(dirs, files, PluginsDir) = { Target(2) }
       /\ FilesUnder(files, Target(2)) =
            { Rebase(plugin_dir[2], Target(2), q) : q \in FilesUnder(files, plugin_dir[2]) }
       /\ \A q \in FilesUnder(files, plugin_dir[2]) :
            files[Rebase(plugin_dir[2], Target(2), q)] = files[q]

\* a step that changes what lies below the plugins directory
C5_Step ==
    PluginsTree(dirs, files)' # PluginsTree(dirs, files)
    => \E w \in Runs :
         /\ pc[w] \in {"rmtree", "copytree"}
         /\ plugin_dir[w] # None
         /\ plugin_dir[w] \in find_plugin_root(dirs, files, temp_dir[w])

\* C5: what lies below the plugins directory changes only in the rmtree and
\* copytree steps of a run, which a run reaches only with the plugin root its
\* locator returned; so a run that fails before or at the locator leaves every
\* Install Target as it was.
C5_TargetOnlyAfterLocate == [][C5_Step]_vars

C5_Witness ==
    \E w \in Runs :
        /\ pc[w] = "finally"
        /\ Outcomes(w) = << Finished(FALSE,
               "No valid plugin structure found (main.lua/_meta.lua missing)") >>
        /\ Children(dirs, files, PluginsDir) # {}

\* a run that raised is in the handler or past it, with the error outcome
C6_Caught ==
    \A w \in Runs :
        err[w] # "" =>
            /\ pc[w] \in {"except", "finally"}
            /\ pc[w] = "finally"
                 => /\ Outcomes(w) = << Finished(FALSE, "Error: " \o err[w]) >>
                    /\ Logged(w, "error", "Error during installation: " \o err[w])

\* the return of a run that raised, when its workspace exists
C6_CleanupStep(w) ==
    ( /\ err[w] # ""
      /\ pc[w] = "finally" /\ pc'[w] = "done"
      /\ temp_dir[w] # None /\ Exists(dirs, files, temp_dir[w]) )
    => /\ Len(log'[w]) = Len(log[w]) + 1
       /\ log'[w][Len(log'[w])] \in
            { <<"info", "Cleaned up temporary directory", temp_dir[w]>>,
              <<"warning", "Failed to cleanup temporary directory", temp_dir[w]>> }
       /\ events'[w] = events[w]

\* C6: a fault raised at any step is caught: the run goes to the handler and
\* on to the cleanup, its only outcome is (False, "Error: {detail}"), and the
\* step that ends the run attempts the cleanup of the workspace that exists
\* (it logs the removal or the warning).
C6_FaultsContained == []C6_Caught /\ [][\A w \in Runs : C6_CleanupStep(w)]_vars

C6_Witness ==
    \E w \in Runs :
        /\ pc[w] = "done"
        /\ Outcomes(w) = << Finished(FALSE, "Error: copytree failed") >>
        /\ Logged(w, "info", "Cleaned up temporary directory")

\* the collaborator call of the run has returned (it did not raise)
SourceAnswered(w) ==
    /\ pc[w] \notin {"idle", "run", "download", "get_patch_files", "done"}
    /\ err[w] \notin {"KeyError", "download_repository_zip failed", "get_patch_files failed"}

\* the answer of the source of run w is absent or empty
C7_Unavailable(w) ==
    /\ SourceAnswered(w)
    /\ \/ item_type[w] = "plugin" /\ zip_content[w] \in {"None", ""}
       \/ item_type[w] = "patch" /\ (~patches[w].some \/ patches[w].items = << >>)

\* the outcome of a run whose source answered with nothing
C7_Outcome ==
    \A w \in Runs :
        /\ (item_type[w] = "plugin" /\ C7_Unavailable(w))
           => /\ pc[w] = "finally"
              /\ Outcomes(w) = << Finished(FALSE, "Failed to download repository") >>
              /\ temp_dir[w] = None
        /\ (item_type[w] = "patch" /\ C7_Unavailable(w))
           => /\ pc[w] = "finally"
              /\ Outcomes(w) = << Finished(FALSE, "No patches found") >>
              /\ temp_dir[w] = None

\* a step of run w up to the answer of its source, or after an empty answer
C7_Step(w) ==
    ( /\ pc'[w] # pc[w]
      /\ \/ pc[w] \in {"run", "download", "get_patch_files"}
         \/ C7_Unavailable(w) )
    => dirs' = dirs /\ files' = files

\* C7: when the Archive Source has answered with an absent or empty archive
\* (patch list), the run is at its cleanup with the single outcome (False,
\* "Failed to download repository") ((False, "No patches found")) and without
\* a workspace; and no step of a run up to that answer, nor the return of such
\* a run, changes the filesystem.
C7_SourceUnavailable == []C7_Outcome /\ [][\A w \in Runs : C7_Step(w)]_vars

C7_Witness ==
    /\ pc[1] = "done"
    /\ Outcomes(1) = << Finished(FALSE, "Failed to download repository") >>
    /\ pc[2] = "finally"
    /\ Outcomes(2) = << Finished(FALSE, "No patches found") >>
    /\ patches[2].some /\ patches[2].items = << >>
    /\ dirs = InitDirs /\ files = InitFiles

\* C8: when a PluginBundle run has emitted a success outcome, the Install
\* Target exists and holds every file of the located plugin root, and every
\* archive member below that root, with the same content; the outcome is the
\* only one, with the message for is_update.
C8_SuccessMeansCopied ==
    \A w \in Runs :
        (item_type[w] = "plugin" /\ pc[w] = "finally" /\ Succeeded(w))
        => /\ Target(w) \in dirs
           /\ FilesUnder(files, plugin_dir[w]) # {}
           /\ \A q \in FilesUnder(files, plugin_dir[w]) :
                /\ Rebase(plugin_dir[w], Target(w), q) \in DOMAIN files
                /\ files[Rebase(plugin_dir[w], Target(w), q)] = files[q]
           /\ \A m \in DOMAIN Members(zip_content[w]) :
                Under(plugin_dir[w], temp_dir[w] \o m)
                => /\ Rebase(plugin_dir[w], Target(w), temp_dir[w] \o m) \in DOMAIN files
                   /\ files[Rebase(plugin_dir[w], Target(w), temp_dir[w] \o m)]
                        = Members(zip_content[w])[m]
           /\ Outcomes(w) =
                << Finished(TRUE, item_data[w].name \o
                     (IF is_update[w] THEN " updated successfully!"
                                      ELSE " installed successfully!")) >>

C8_Witness ==
    \E w \in Runs :
        /\ item_type[w] = "plugin" /\ pc[w] = "finally" /\ is_update[w]
        /\ Succeeded(w)
        /\ zip_content[w] = "repo1"
        /\ (PluginsDir \o << <<"foo", ".koplugin">>, OtherLua >>) \in DOMAIN files

\* the position of the last descriptor of l with the name of the j-th
LastNamed(l, j) ==
    CHOOSE k \in j..Len(l) :
        /\ l[k].name = l[j].name
        /\ \A h \in (k + 1)..Len(l) : l[h].name # l[j].name

\* C9 (as stated): a PatchSet run that succeeded on n >= 1 descriptors reports
\* "n patch(es) installed!", n is the number of writes it made, and the file
\* named after each descriptor holds the content fetched for that descriptor.
C9_PatchSetInstalled ==
    \A w \in Runs :
        (item_type[w] = "patch" /\ pc[w] = "finally" /\ Succeeded(w))
        => LET l == patches[w].items
           IN  /\ Outcomes(w) = << Finished(TRUE, ToString(Len(l)) \o " patch(es) installed!") >>
               /\ idx[w] = Len(l)
               /\ \A j \in 1..Len(l) :
                    /\ (PatchDir \o << <<l[j].name>> >>) \in DOMAIN files
                    /\ files[PatchDir \o << <<l[j].name>> >>] = TextAt(l[j].download_url)

\* C9 (amended): a PatchSet run that succeeded on n >= 1 descriptors reports
\* "n patch(es) installed!", n is the number of descriptors (of writes), and
\* the file named after each descriptor exists and holds the content fetched
\* for the last descriptor of that name.
C9_PatchSetLastWins ==
    \A w \in Runs :
        (item_type[w] = "patch" /\ pc[w] = "finally" /\ Succeeded(w))
        => LET l == patches[w].items
           IN  /\ Len(l) >= 1
               /\ idx[w] = Len(l)
               /\ Outcomes(w) = << Finished(TRUE, ToString(Len(l)) \o " patch(es) installed!") >>
               /\ PatchDir \in dirs
               /\ \A j \in 1..Len(l) :
                    /\ (PatchDir \o << <<l[j].name>> >>) \in DOMAIN files
                    /\ files[PatchDir \o << <<l[j].name>> >>]
                         = TextAt(l[LastNamed(l, j)].download_url)

C9_Witness ==
    /\ item_type[1] = "patch" /\ pc[1] = "done" /\ Succeeded(1)
    /\ item_type[2] = "patch" /\ pc[2] = "finally" /\ Succeeded(2)
    /\ Len(patches[2].items) = 2
    /\ patches[2].items[1].name # patches[2].items[2].name
    /\ \E j \in 1..2 :
         /\ patches[2].items[j].download_url = "url-2"
         /\ files[PatchDir \o << <<patches[2].items[j].name>> >>] = "text-2"
    /\ Outcomes(1) = << Finished(TRUE, "1 patch(es) installed!") >>

\* C10: once a run has emitted `finished`, it emits nothing more: no progress
\* event and no second outcome.
C10_NothingAfterFinished ==
    [][\A w \in Runs : Outcomes(w) # << >> => events'[w] = events[w]]_vars

C10_Witness ==
    \E w \in Runs :
        /\ pc[w] = "done"
        /\ Len(events[w]) = 5
        /\ events[w][5][1] = "finished"
        /\ \A i \in 1..4 : events[w][i][1] = "progress"

\* the directories of the workspace tree that directly hold both marker files
QualifyingDirs ==
    { d \in DirsUnder(dirs, Base) :
        /\ (d \o <<MainLua>>) \in DOMAIN files
        /\ (d \o <<MetaLua>>) \in DOMAIN files }

\* find_plugin_root has returned to run 1
Located == pc[1] \in {"target_exists", "finally"} /\ err[1] = ""

\* C11: find_plugin_root(base) returns a directory if and only if some
\* directory of the tree (base included) directly contains both marker
\* files, and a returned directory lies in the tree and directly contains
\* both marker files.
C11_LocatorSound ==
    Located =>
        /\ plugin_dir[1] # None <=> QualifyingDirs # {}
        /\ plugin_dir[1] # None => plugin_dir[1] \in QualifyingDirs

\* C12: when base directly contains both marker files base is returned, even
\* when nested directories qualify; when base does not and exactly one nested
\* directory qualifies that directory is returned; when several do, one of
\* them is returned.
C12_LocatorPriority ==
    Located =>
        /\ Base \in QualifyingDirs => plugin_dir[1] = Base
        /\ Base \notin QualifyingDirs /\ QualifyingDirs # {} =>
              plugin_dir[1] \in QualifyingDirs
        /\ Base \notin QualifyingDirs /\ Cardinality(QualifyingDirs) = 1 =>
              QualifyingDirs = {plugin_dir[1]}

\* C13: the install name derived from the located directory ends with
\* ".koplugin"; a name that already ends with it is kept; `foo` and
\* `foo.koplugin` both give `foo.koplugin`; deriving from the derived name
\* gives the derived name.
C13_NamingIdempotent ==
    pc[1] = "target_exists" =>
        LET name == plugin_dir[1][Len(plugin_dir[1])]
            derived == Target(1)[Len(Target(1))]
        IN  /\ derived[Len(derived)] = ".koplugin"
            /\ name[Len(name)] = ".koplugin" => derived = name
            /\ name \in { <<"foo">>, <<"foo", ".koplugin">> } =>
                  derived = <<"foo", ".koplugin">>
            /\ PluginName(<< derived >>) = derived

C13_Witness ==
    /\ pc[1] = "target_exists"
    /\ plugin_dir[1] = Base \o << <<"foo">> >>
    /\ Target(1) = PluginsDir \o << <<"foo", ".koplugin">> >>

\* what the Install Target of run w holds: name below the target -> content
TargetContent(w) ==
    [ q \in { Rebase(Target(w), << >>, t) : t \in FilesUnder(files, Target(w)) } |->
        files[Target(w) \o q] ]

\* what the plugin root of run w holds: name below the root -> content
RootContent(w) ==
    [ q \in { Rebase(plugin_dir[w], << >>, t) : t \in FilesUnder(files, plugin_dir[w]) } |->
        files[plugin_dir[w] \o q] ]

\* C14 (as stated): when two concurrent plugin runs on the same Install
\* Target have both emitted their outcome and one of them reported success,
\* the target exists and holds exactly the plugin root of a run that
\* reported success, never a mixture.
C14_LastWriterWins ==
    \A w, v \in Runs :
        ( /\ w # v
          /\ pc[w] = "finally" /\ pc[v] = "finally"
          /\ plugin_dir[w] # None /\ plugin_dir[v] # None
          /\ Target(w) = Target(v)
          /\ Succeeded(w) \/ Succeeded(v) )
        => /\ Target(w) \in dirs
           /\ \E u \in {w, v} : Succeeded(u) /\ TargetContent(u) = RootContent(u)

\* the archive of run w has been extracted into its workspace, which the run
\* has not cleaned up yet
Extracted(w) ==
    /\ temp_dir[w] # None
    /\ \E i \in 1..Len(events[w]) : events[w][i] = Progress("Analyzing plugin structure...")

\* C15: concurrent runs never share a workspace, and no run removes anything
\* of the workspace or plugin root another run still uses: the workspaces
\* held at one time are distinct directories that exist, and from extraction
\* until its own cleanup a run's workspace holds the archive and all its
\* members, and its plugin root is a directory of that workspace.
C15_WorkspacesDisjoint ==
    \A w \in Runs :
        temp_dir[w] # None =>
            /\ temp_dir[w] \in dirs
            /\ \A v \in Runs \ {w} :
                  temp_dir[v] # None =>
                      ~Under(temp_dir[w], temp_dir[v]) /\ ~Under(temp_dir[v], temp_dir[w])
            /\ Extracted(w) =>
                  /\ FilesUnder(files, temp_dir[w]) =
                        {ZipPath(w)} \cup { temp_dir[w] \o m : m \in DOMAIN Members(zip_content[w]) }
                  /\ files[ZipPath(w)] = zip_content[w]
                  /\ \A m \in DOMAIN Members(zip_content[w]) :
                        files[temp_dir[w] \o m] = Members(zip_content[w])[m]
            /\ plugin_dir[w] # None =>
                  plugin_dir[w] \in dirs /\ Under(temp_dir[w], plugin_dir[w])

C15_Witness ==
    /\ pc[1] = "done"
    /\ Logged(1, "info", "Cleaned up temporary directory")
    /\ pc[2] = "copytree_entries"
    /\ Extracted(2)
    /\ plugin_dir[2] # None
    /\ LoggedPaths(1, "Cleaned up temporary directory") # {temp_dir[2]}

\* C18 (as stated): the Install Target path is a function of the archive and
\* the install root: two runs that located the plugin root of the same
\* archive have the same target, whatever their workspaces are called.
C18_TargetIndependentOfWorkspace ==
    \A w, v \in Runs :
        ( /\ plugin_dir[w] # None /\ plugin_dir[v] # None
          /\ zip_content[w] = zip_content[v] )
        => Target(w) = Target(v)

\* the pipeline phase of section 4.2 a position of run() belongs to
PhaseRank(label) ==
    CASE label = "idle" -> 0
      [] label = "run" -> 1
      [] label \in {"download", "get_patch_files"} -> 2
      [] label \in {"mkdtemp", "write_zip", "extract"} -> 3
      [] label = "locate" -> 4
      [] label \in {"target_exists", "rmtree", "copytree", "mkdir", "get", "write"} -> 5
      [] label = "except" -> 6
      [] label = "finally" -> 7
      [] OTHER -> 8

\* C16 (as stated): under fair scheduling every started run eventually has
\* emitted its outcome and ended, and no step takes a run back to an earlier
\* phase.
C16_EveryRunTerminates ==
    /\ \A w \in Runs : (pc[w] = "run") ~> (pc[w] = "done" /\ Len(Outcomes(w)) = 1)
    /\ [][\A w \in Runs : PhaseRank(pc'[w]) >= PhaseRank(pc[w])]_vars

\* the run has emitted the progress event with this message
Emitted(w, m) == \E i \in 1..Len(events[w]) : events[w][i] = <<"progress", m>>

\* C17 (as stated): each progress event has been emitted when the work of
\* its phase is about to begin: "Downloading {package}..." before the
\* archive request, "Extracting..." before the workspace is created,
\* "Analyzing plugin structure..." before the locator runs, "Installing..."
\* before the Install Target is changed, "Downloading patches..." before the
\* patch list is requested.
C17_ProgressBeforeWork ==
    \A w \in Runs :
        /\ pc[w] = "download" => Emitted(w, "Downloading " \o item_data[w].name \o "...")
        /\ pc[w] \in {"mkdtemp", "write_zip", "extract"} => Emitted(w, "Extracting...")
        /\ pc[w] = "locate" => Emitted(w, "Analyzing plugin structure...")
        /\ pc[w] \in {"target_exists", "rmtree", "copytree"} => Emitted(w, "Installing...")
        /\ pc[w] \in {"get_patch_files", "mkdir", "get", "write"} =>
              Emitted(w, "Downloading patches...")

\* C17 (amended): as stated for "Downloading {package}...", "Analyzing
\* plugin structure..." and "Installing..."; "Extracting..." is emitted
\* after the workspace was created and the archive written into it, before
\* the archive is decompressed; "Downloading patches..." is emitted after
\* the patch list was requested and found non-empty, before the patches
\* directory is created and the first patch fetched.
C17_ProgressBeforeWorkAmended ==
    \A w \in Runs :
        /\ pc[w] = "download" => Emitted(w, "Downloading " \o item_data[w].name \o "...")
        /\ pc[w] \in {"mkdtemp", "write_zip"} => ~Emitted(w, "Extracting...")
        /\ pc[w] = "extract" =>
              /\ Emitted(w, "Extracting...")
              /\ temp_dir[w] \in dirs
              /\ ZipPath(w) \in DOMAIN files
              /\ FilesUnder(files, temp_dir[w]) = {ZipPath(w)}
        /\ pc[w] = "locate" => Emitted(w, "Analyzing plugin structure...")
        /\ pc[w] \in {"target_exists", "rmtree", "copytree"} => Emitted(w, "Installing...")
        /\ pc[w] = "get_patch_files" => ~Emitted(w, "Downloading patches...")
        /\ pc[w] \in {"mkdir", "get", "write"} =>
              /\ Emitted(w, "Downloading patches...")
              /\ PatchesTruthy(patches[w])

C17_Witness ==
    /\ pc[1] = "extract"
    /\ events[1] = << <<"progress", "Downloading y...">>, <<"progress", "Extracting...">> >>
    /\ ZipPath(1) \in DOMAIN files
    /\ pc[2] = "idle"

\* C19 (as stated): when a plugin run has reported success, every file of
\* its Install Target is a member of the archive below the plugin root, with
\* the member's content; the archive file {repo}.zip is not among them.
C19_OnlyPluginRootFiles ==
    \A w \in Runs :
        (item_type[w] = "plugin" /\ pc[w] = "finally" /\ Succeeded(w))
        => \A q \in FilesUnder(files, Target(w)) :
             /\ q[Len(q)] # <<item_data[w].name, ".zip">>
             /\ \E m \in DOMAIN Members(zip_content[w]) :
                  /\ temp_dir[w] \o m = Rebase(Target(w), plugin_dir[w], q)
                  /\ files[q] = Members(zip_content[w])[m]

\* C20: when the fetch or the write of the k-th descriptor faults, the run
\* emits (false, "Error: {detail}") and nothing is rolled back: the file
\* named after each of the first k-1 descriptors exists, with the content
\* fetched for the last of them of that name (unless the k-th, whose write
\* may have begun, has that name too), and where no other patch run has
\* written, every file under patches is named after one of the first k
\* descriptors.
C20_NoRollback ==
    \A w \in Runs :
        ( /\ item_type[w] = "patch"
          /\ pc[w] = "finally"
          /\ err[w] \in {"get failed", "write failed"} )
        => LET l == patches[w].items
               k == idx[w]
               first == SubSeq(l, 1, k - 1)
           IN  /\ k \in 1..Len(l)
               /\ Outcomes(w) = << <<"finished", FALSE, "Error: " \o err[w]>> >>
               /\ \A j \in 1..(k - 1) :
                    /\ (PatchDir \o << <<l[j].name>> >>) \in DOMAIN files
                    /\ l[j].name # l[k].name =>
                          files[PatchDir \o << <<l[j].name>> >>]
                            = TextAt(first[LastNamed(first, j)].download_url)
               /\ (\A v \in Runs \ {w} : item_type[v] # "patch") =>
                    \A q \in FilesUnder(files, PatchDir) :
                        \E j \in 1..k :
                            /\ q = PatchDir \o << <<l[j].name>> >>
                            /\ j = k => err[w] = "write failed" \/ \E h \in 1..(k - 1) : l[h].name = l[k].name

C20_Witness ==
    /\ item_type[1] = "patch" /\ pc[1] = "finally" /\ err[1] = "get failed"
    /\ idx[1] = 2
    /\ patches[1].items[1].name = "a.lua" /\ patches[1].items[2].name = "b.lua"
    /\ (PatchDir \o << <<"a.lua">> >>) \in DOMAIN files
    /\ files[PatchDir \o << <<"a.lua">> >>] = TextAt(patches[1].items[1].download_url)
    /\ (PatchDir \o << <<"b.lua">> >>) \notin DOMAIN files
    /\ Outcomes(1) = << <<"finished", FALSE, "Error: get failed">> >>

====
